---- MODULE Spec2Model ----
(***************************************************************************)
(* MLDatabase (mldatabase/__main__.py): the update engine of the           *)
(* micro-lensing database.  The store directory holds the catalog file     *)
(* (master.hdf5), the master exposure file (exp_master.hdf5), pending      *)
(* shard files (temp_exp<N>.hdf5), the replacement file temp.hdf5 and the  *)
(* lock files.  Every file operation of cli_update / perform_update /      *)
(* open_database is one step, so that interleavings and interruptions      *)
(* between any two file operations are states of the model.                *)
(*                                                                         *)
(* Time is counted in ticks of 1/TicksPerSec second: a file's mtime is a   *)
(* number of ticks, and the catalog's last_modified column (an int column) *)
(* holds whole seconds.                                                    *)
(***************************************************************************)
EXTENDS Integers, Sequences, FiniteSets, Bags, TLC

\* ------------------------------------------------------------------ bounds
TicksPerSec == 2        \* resolution of file modification times
MaxTime == 3            \* latest modification time (ticks) a source file gets
MaxRuns == 2            \* update invocations per behaviour
MaxCap == 1             \* largest -n/--n_expnums value tried
MaxN == 400             \* longest list dyn_range is called for
BatchStep == 1          \* dyn_range's step, scaled down from 100

DefaultStep == 100      \* dyn_range's default step
NoCap == 0              \* n_expnums=None: islice(re_iter, None) takes all

ExpNums == {1, 2, 10}   \* exposure numbers that occur in file names
ObjIds == {1, 2}        \* object ids that occur in exposure files
Versions == {1, 2}      \* package versions, in release order
BadNums == {2}          \* exposure files that may hold a row of another exposure
Updaters == {"u1", "u2"}
Readers == {"r1", "r2"}

Min(a, b) == IF a < b THEN a ELSE b

\* ------------------------------------------------------------ file contents
\* A row of an exposure file, reduced to the columns the engine reads:
\* <<expnum, data, objid>>.  `data` stands for the measurement columns and is
\* the modification time of the source version the row was read from.
NoFile == [exists |-> FALSE, rows |-> EmptyBag]
File(b) == [exists |-> TRUE, rows |-> b]

ObjsOf(e) == IF e = 1 THEN {1} ELSE ObjIds

\* The rows vaex.from_csv reads from Exp<e>.csv as last written at time m.
ExpData(e, m) == SetToBag({<<e, m, o>> : o \in ObjsOf(e)})

\* (as if the compaction pass kept the rows of the outdated exposures)
FilterOutNothing(b, outd) == b

\* master_df.filter(master_df.expnum != expnum) for every outdated expnum
FilterOut(b, outd) == [r \in {x \in DOMAIN b : x[1] \notin outd} |-> b[r]]

\* np.unique(master_df['objid'].values, return_counts=True)
RECURSIVE SumOver(_, _)
SumOver(b, S) ==
    IF S = {} THEN 0
    ELSE LET r == CHOOSE x \in S : TRUE IN b[r] + SumOver(b, S \ {r})
UniqueCounts(b) ==
    LET objs == {r[3] : r \in DOMAIN b}
    IN  [o \in objs |-> SumOver(b, {r \in DOMAIN b : r[3] = o})]

\* ---------------------------------------------------------------- the scan
\* File names of the source directory: <<e, "csv">> is Exp<e>.csv and
\* <<e, "xtr">> is Exp<e>_xtr.csv.
RECURSIVE Digits(_)
Digits(n) == IF n < 10 THEN <<48 + n>> ELSE Append(Digits(n \div 10), 48 + (n % 10))

\* The characters of a name from after "Exp" up to the first one that tells
\* the two kinds apart ('.' is 46, '_' is 95, the digits are 48..57).
NameKey(f) == Append(Digits(f[1]), IF f[2] = "csv" THEN 46 ELSE 95)

LexLess(a, b) ==
    \E i \in 1..Min(Len(a), Len(b)) :
        /\ a[i] < b[i]
        /\ \A j \in 1..(i - 1) : a[j] = b[j]

\* sorted(next(os.walk(ARGS.dir))[2])
RECURSIVE SortedNames(_)
SortedNames(F) ==
    IF F = {} THEN <<>>
    ELSE LET f == CHOOSE x \in F : \A y \in F \ {x} : LexLess(NameKey(x), NameKey(y))
         IN  <<f>> \o SortedNames(F \ {f})

FileNames(d) ==
    {<<e, "csv">> : e \in {x \in ExpNums : d[x].exp # 0}}
        \cup {<<e, "xtr">> : e \in {x \in ExpNums : d[x].xtr}}

\* re.finditer(EXP_REGEX, filenames): the matches are found left to right and
\* do not overlap.  A match starts at a primary name Exp<e>.csv (e with a
\* non-zero digit), runs lazily over whatever follows and ends at the first
\* later companion name Exp<e>_xtr.csv; the search resumes after that name.
RECURSIVE FindIter(_, _)
FindIter(names, i) ==
    IF i > Len(names) THEN <<>>
    ELSE LET f == names[i]
             js == {j \in (i + 1)..Len(names) : names[j] = <<f[1], "xtr">>}
         IN  IF f[2] = "csv" /\ f[1] # 0 /\ js # {}
             THEN <<f[1]>> \o FindIter(names, (CHOOSE j \in js : \A k \in js : j <= k) + 1)
             ELSE FindIter(names, i + 1)

\* islice(re_iter, ARGS.n_expnums)
ISlice(s, n) == IF n = NoCap THEN s ELSE SubSeq(s, 1, Min(n, Len(s)))

\* exp_dict of perform_update, as the sequence of its keys in insertion order
ScanDir(d, n) == ISlice(FindIter(SortedNames(FileNames(d)), 1), n)

\* The exposures with both files present
Paired(d) == {e \in ExpNums : d[e].exp # 0 /\ d[e].xtr}

\* ---------------------------------------------------------------- the diff
\* int(path.getmtime(...)) as stored into the int column last_modified
ToInt(m) == m \div TicksPerSec

\* path.getmtime(exp_files[0]) > mtime, the stored mtime being whole seconds
IsNewer(m, stored) == m > stored * TicksPerSec

Remove(s, e) == SelectSeq(s, LAMBDA x : x # e)
InSeq(s, e) == \E i \in 1..Len(s) : s[i] = e

\* Lines 477-482: the shard a previous run left behind joins temp_files
Leftover(sh, expnum, tf) == IF sh[expnum].exists THEN Append(tf, expnum) ELSE tf

\* The loop "for expnum, *_, mtime in expnums_known" of perform_update.
\* st = [exp_dict, expnums_outdated, temp_files]
RECURSIVE DiffLoop(_, _, _, _, _)
DiffLoop(entries, i, st, d, sh) ==
    IF i > Len(entries) THEN st
    ELSE LET expnum == entries[i].expnum
             mtime == entries[i].last_modified
         IN  IF ~InSeq(st.exp_dict, expnum)
             THEN DiffLoop(entries, i + 1, st, d, sh)
             ELSE IF IsNewer(d[expnum].exp, mtime)
             THEN DiffLoop(entries, i + 1,
                           [st EXCEPT !.expnums_outdated = Append(@, expnum)], d, sh)
             ELSE DiffLoop(entries, i + 1,
                           [st EXCEPT !.exp_dict = Remove(@, expnum),
                                      !.temp_files = Leftover(sh, expnum, @)],
                           d, sh)

\* --------------------------------------------------------------- dyn_range
\* (as if the last slice could take twice the step)
StepDouble(step) == step * 2

\* step_max = int(step*1.5)
StepMax(step) == (step * 3) \div 2

\* The slices <<a, b>> dyn_range(n, step) yields from upper limit b on
RECURSIVE DynRange(_, _, _)
DynRange(n, b, step) ==
    IF ~(b < n) THEN <<>>
    ELSE LET b2 == Min(b + (IF n - b <= StepMax(step) THEN StepMax(step)
                            ELSE step), n)
         IN  <<(<<b, b2>>)>> \o DynRange(n, b2, step)

\* [temp_files[slc] for slc in dyn_range(len(temp_files))]
Batches(tf) ==
    LET slcs == DynRange(Len(tf), 0, BatchStep)
    IN  [k \in 1..Len(slcs) |-> SubSeq(tf, slcs[k][1] + 1, slcs[k][2])]

\* ------------------------------------------------------------------- state
VARIABLES
    dir,        \* source directory: dir[e].exp is the mtime of Exp<e>.csv (0: no
                \* such file), dir[e].xtr whether Exp<e>_xtr.csv is present
    tool,       \* __version__ of the installed package
    mld,        \* the store directory ARGS.mld (.mldatabase) exists
    req_files,  \* the files REQ_FILES are in the source directory
    cmd,        \* the init or reset command of the shell that runs the updates
    dyn,        \* a call dyn_range(n) with the default step: its n and slices
    lockf,      \* .mld_update.lock exists
    lock_old,   \* .mld_update.lock exists and was created over 7 days ago
    alocks,     \* the .mld_access_*.lock files, named by their session
    cat,        \* master.hdf5: attrs n_expnums, datasets expnums and objids
    master,     \* exp_master.hdf5
    tempf,      \* temp.hdf5
    shards,     \* shards[e] is temp_exp<e>.hdf5
    upd,        \* the update invocation of each updater process
    rdr,        \* the read session of each reader process
    runs,       \* update invocations started so far
    hist        \* history of the current and the previous invocation

fsvars == <<lockf, lock_old, alocks, cat, master, tempf, shards>>
cmdvars == <<mld, req_files, cmd, dyn>>
vars == <<dir, tool, mld, req_files, cmd, dyn, lockf, lock_old, alocks, cat, master, tempf, shards, upd, rdr, runs,
          hist>>

NoCat ==
    [exists |-> FALSE, version |-> 0, n_expnums |-> 0, expnums |-> <<>>,
     objids |-> EmptyBag]

\* Positions of cli_update / perform_update
BodyPcs == {"open", "scan", "process", "upsert", "close", "c_export", "c_remove",
            "c_rename", "m_export", "m_remove", "m_rename", "reindex", "unlock"}
MergePcs == {"m_export", "m_remove", "m_rename"}
\* m_file is open (the with-block of lines 500-517)
OpenPcs == {"process", "upsert", "close"}
EndPcs == {"idle", "done", "conflict", "raised", "aborted", "invalid", "crashed",
           "notfound"}

\* dyn_range has not been called
NoDyn == [n |-> 0, called |-> FALSE, out |-> <<>>]

\* No init or reset command is under way
NoCmd == [op |-> "none", pc |-> "idle"]
\* Positions of cli_init / cli_reset: about to call cli_update, inside it
CmdBusy == {"update", "running"}
CmdEnd == {"idle", "exists", "notfound", "inuse", "noreq", "ended"}

NewUpd(pcv, n) ==
    [pc |-> pcv, n |-> n, expnums_known |-> <<>>, exp_dict |-> <<>>,
     expnums_outdated |-> <<>>, temp_files |-> <<>>, m_file |-> NoCat,
     batches |-> <<>>, k |-> 0, rmlist |-> <<>>, cancelled |-> FALSE, at |-> "idle"]

NoHist ==
    [merging |-> <<>>,          \* rows of each shard of the batch being merged
     committed |-> NoFile,      \* exp_master.hdf5 when the batch's merge began
     pre_master |-> NoFile,     \* exp_master.hdf5 when the invocation began
     pre_cat |-> NoCat,         \* master.hdf5 when the invocation began
     pre_locked |-> FALSE,      \* a lock file existed when it was listed
     stale |-> {},              \* expnums merged from an older source version
     uptodate |-> {},           \* expnums merged from the current version
     first |-> FALSE,           \* the invocation began on an empty store
     again |-> FALSE,           \* the previous invocation ran to its end and
                                \* no source file has changed since
     prev_n |-> NoCap,          \* that previous invocation's n_expnums
     quiet |-> FALSE,           \* no source file changed since the last
                                \* invocation ended
     owed |-> {},               \* shards written by an invocation that ended
                                \* before its first batch merge
     todo |-> {},               \* shards not yet merged when a merge was left
     made |-> {},               \* expnums of the shards in temp_files when the
                                \* processing loop was cancelled
     pending |-> {}]            \* expnums of the shards that existed when the
                                \* invocation began

Range(s) == {s[i] : i \in 1..Len(s)}

TypeOK ==
    /\ dir \in [ExpNums -> [exp : 0..MaxTime, xtr : BOOLEAN, bad : BOOLEAN]]
    /\ tool \in Versions
    /\ mld \in BOOLEAN /\ req_files \in BOOLEAN
    /\ dyn.n \in Nat /\ dyn.called \in BOOLEAN
    /\ cmd.op \in {"none", "init", "reset"} /\ cmd.pc \in CmdBusy \cup CmdEnd
    /\ lockf \in BOOLEAN
    /\ lock_old \in BOOLEAN /\ (lock_old => lockf)
    /\ alocks \subseteq Readers
    /\ cat.exists \in BOOLEAN /\ cat.n_expnums \in Nat
    /\ master.exists \in BOOLEAN /\ tempf.exists \in BOOLEAN
    /\ \A e \in ExpNums : shards[e].exists \in BOOLEAN
    /\ \A p \in Updaters : upd[p].pc \in BodyPcs \cup EndPcs \cup {"mklock"}
    /\ runs \in 0..MaxRuns

\* The state after cli_init has made the store directory (os.mkdir): the store
\* is empty.  The source directory holds a primary file for every exposure
\* number and a companion file for some of them; the files were written at a
\* whole second or between two.  The primary file of an exposure may hold a
\* row whose expnum column is another exposure's.
Init ==
    /\ \E S \in SUBSET ExpNums : \E m \in TicksPerSec..(TicksPerSec + 1) :
          \E B \in SUBSET (S \cap BadNums) :
              dir = [e \in ExpNums |-> [exp |-> m, xtr |-> e \in S, bad |-> e \in B]]
    /\ tool = 1
    /\ mld = TRUE
    /\ req_files = TRUE
    /\ cmd = NoCmd
    /\ dyn = NoDyn
    /\ lockf = FALSE
    /\ lock_old = FALSE
    /\ alocks = {}
    /\ cat = NoCat
    /\ master = NoFile
    /\ tempf = NoFile
    /\ shards = [e \in ExpNums |-> NoFile]
    /\ upd = [p \in Updaters |-> NewUpd("idle", NoCap)]
    /\ rdr = [r \in Readers |-> "idle"]
    /\ runs = 0
    /\ hist = NoHist

\* ------------------------------------------------------- helper operations
\* The rows of exposure e in a file
RowsOfExp(b, e) == [r \in {x \in DOMAIN b : x[1] = e} |-> b[r]]

RECURSIVE BagSum(_, _)
\* vaex.open_many(temp_files_list): the rows of all shards of a batch
BagSum(batch, sh) ==
    IF batch = <<>> THEN EmptyBag
    ELSE sh[Head(batch)].rows (+) BagSum(Tail(batch), sh)

\* Lines 656-667 of process_exp_files: overwrite the entry of expnum at its
\* first index, or append one and count it.
Upsert(c, expnum, mtime) ==
    LET index == {i \in 1..Len(c.expnums) : c.expnums[i].expnum = expnum}
        entry == [expnum |-> expnum, last_modified |-> ToInt(mtime)]
    IN  IF index # {}
        THEN [c EXCEPT !.expnums[CHOOSE i \in index : \A j \in index : i <= j] = entry]
        ELSE [c EXCEPT !.expnums = Append(@, entry), !.n_expnums = @ + 1]

\* Lines 664-667 cut short by an interrupt, an error or a kill: the dataset
\* is resized (h5py fills the new entry with zeros), then the entry is
\* written, then n_expnums is counted up.
UpsertCut(c, expnum, mtime, part) ==
    IF part = "counted" THEN Upsert(c, expnum, mtime)
    ELSE IF part = "written"
    THEN [c EXCEPT !.expnums =
              Append(@, [expnum |-> expnum, last_modified |-> ToInt(mtime)])]
    ELSE IF part = "resized"
    THEN [c EXCEPT !.expnums = Append(@, [expnum |-> 0, last_modified |-> 0])]
    ELSE c

\* What master.hdf5 can hold when lines 656-667 do not run to their end: an
\* unseen exposure can be left resized or written without being counted.
CutShort(u, d) ==
    LET expnum == Head(u.exp_dict)
        seen == \E i \in 1..Len(u.m_file.expnums) :
                    u.m_file.expnums[i].expnum = expnum
    IN  {UpsertCut(u.m_file, expnum, d[expnum].exp, part) :
            part \in IF seen THEN {"none", "counted"}
                     ELSE {"none", "resized", "written", "counted"}}

\* (as if the compaction did not ask for outdated exposures)
AfterCloseAlways(u, m) ==
    IF m.exists THEN "c_export"
    ELSE IF Batches(u.temp_files) # <<>> THEN "m_export" ELSE "reindex"

\* The position after the catalog is closed (lines 524-557)
AfterClose(u, m) ==
    IF m.exists /\ u.expnums_outdated # <<>> THEN "c_export"
    ELSE IF Batches(u.temp_files) # <<>> THEN "m_export" ELSE "reindex"

\* Shards are written and no batch has been merged yet
PreMerge(u) ==
    \/ u.pc \in {"process", "upsert", "close", "c_export", "c_remove", "c_rename"}
    \/ u.pc = "m_export" /\ u.k = 1

\* The shards of the batch being merged and of the batches after it
Unmerged(u) ==
    UNION {Range(u.batches[j]) : j \in {i \in 1..Len(u.batches) : i >= u.k}}

\* The part of perform_update a position belongs to
Stage(pcv) ==
    IF pcv \in MergePcs THEN "merge"
    ELSE IF pcv \in {"c_export", "c_remove", "c_rename"} THEN "compact"
    ELSE IF pcv \in OpenPcs THEN "process"
    ELSE IF pcv = "reindex" THEN "reindex"
    ELSE "control"

\* The invocation of p after it has ended at its current position
Ended(p, pcv) ==
    [NewUpd(pcv, upd[p].n) EXCEPT !.cancelled = upd[p].cancelled,
                                  !.at = Stage(upd[p].pc)]

\* hist when the invocation of p ends at its current position.
HistEnd(p) ==
    [hist EXCEPT !.quiet = TRUE,
                 !.todo = IF upd[p].pc \in MergePcs THEN Unmerged(upd[p]) ELSE {},
                 !.owed = IF upd[p].pc = "unlock" THEN @
                          ELSE IF PreMerge(upd[p])
                          THEN {e \in ExpNums : shards[e].exists} ELSE {}]

\* (as if the update-lock were not removed when the update body is left)
LockFileKept == UNCHANGED <<lockf, lock_old>>

\* Lines 312-314, the finally clause of cli_update: os.remove(lock_file)
RemoveLockFile == lockf' = FALSE /\ lock_old' = FALSE

\* An exception leaves perform_update: the finally clause of cli_update removes
\* the update-lock and the command ends.
Leave(p, pcv) ==
    /\ upd' = [upd EXCEPT ![p] = Ended(p, pcv)]
    /\ RemoveLockFile
    /\ cat' = IF upd[p].pc \in OpenPcs THEN upd[p].m_file ELSE cat
    /\ hist' = HistEnd(p)
    /\ UNCHANGED <<dir, tool, cmdvars, alocks, master, tempf, shards, rdr, runs>>

\* An exception raised by a call of perform_update itself
Raised(p) == Leave(p, "raised")

\* Lines 645-650 of process_exp_files: sys.exit() raises SystemExit, which
\* leaves perform_update the way any exception does.
SysExit(p) == Leave(p, "invalid")

\* ------------------------------------------------------------- cli_update
\* (as if only the update-lock were looked for)
LockedByUpdateOnly == lockf

\* Lines 286-290: '.lock' in str(next(os.walk(ARGS.mld))[2])
Locked == lockf \/ alocks # {}

\* (as if the existence of the store directory were not tested)
CheckSkipped(req) == TRUE

\* check_database_exist(req), lines 674-693: returns when the store directory
\* exists as req requires, and ends the command (sys.exit) otherwise.
CheckDatabaseExist(req) == req = mld

\* cli_update, lines 279-301: the store directory must exist; it is listed
\* once, and any name holding ".lock" ends the command.
CliUpdate(p, n) ==
    /\ upd[p].pc \in EndPcs
    /\ IF ~CheckDatabaseExist(TRUE)
       THEN /\ upd' = [upd EXCEPT ![p] = NewUpd("notfound", n)]
            /\ hist' = hist
       ELSE
       LET locked == Locked
       IN  /\ upd' = [upd EXCEPT ![p] = NewUpd(IF locked THEN "conflict" ELSE "mklock", n)]
           /\ hist' = [hist EXCEPT
                  !.merging = <<>>,
                  !.todo = {},
                  !.made = {},
                  !.pending = {e \in ExpNums : shards[e].exists},
                  !.committed = master,
                  !.pre_master = master,
                  !.pre_cat = cat,
                  !.pre_locked = locked,
                  !.first = ~cat.exists /\ ~master.exists /\ ~tempf.exists
                            /\ \A e \in ExpNums : ~shards[e].exists,
                  !.uptodate = {e \in ExpNums :
                      /\ dir[e].exp # 0
                      /\ RowsOfExp(master.rows, e) = ExpData(e, dir[e].exp)
                      /\ ~shards[e].exists},
                  !.stale = {e \in ExpNums :
                      /\ dir[e].exp # 0
                      /\ \E a \in 1..(dir[e].exp - 1) :
                          /\ RowsOfExp(master.rows, e) = ExpData(e, a)
                          /\ \E i \in 1..Len(cat.expnums) :
                                cat.expnums[i] = [expnum |-> e, last_modified |-> ToInt(a)]},
                  !.again = upd[p].pc = "done" /\ ~upd[p].cancelled /\ hist.quiet,
                  !.prev_n = IF upd[p].pc = "done" /\ ~upd[p].cancelled /\ hist.quiet
                             THEN upd[p].n ELSE NoCap,
                  !.owed = IF upd[p].pc = "done" THEN {} ELSE @]
    /\ UNCHANGED <<dir, tool, mld, req_files, dyn, fsvars, rdr>>

\* `mld update` given to the shell, with n as its -n/--n_expnums
U_Check(p, n) ==
    /\ cmd.pc \in CmdEnd
    /\ runs < MaxRuns
    /\ CliUpdate(p, n)
    /\ runs' = runs + 1
    /\ UNCHANGED cmd

\* `mld update` given to the shell again with the -n/--n_expnums of the
\* invocation before, any number of times
U_Repeat(p) ==
    /\ cmd.pc \in CmdEnd
    /\ CliUpdate(p, upd[p].n)
    /\ UNCHANGED <<cmd, runs>>

\* Lines 303-305: open(lock_file, 'w')
U_CreateLock(p) ==
    /\ upd[p].pc = "mklock"
    /\ lockf' = TRUE
    /\ lock_old' = FALSE
    /\ upd' = [upd EXCEPT ![p].pc = "open"]
    /\ UNCHANGED <<dir, tool, cmdvars, alocks, cat, master, tempf, shards, rdr, runs, hist>>

\* Lines 312-314: os.remove(lock_file)
U_Unlock(p) ==
    /\ upd[p].pc = "unlock"
    /\ RemoveLockFile
    /\ upd' = [upd EXCEPT ![p] = Ended(p, IF lockf THEN "done" ELSE "raised")]
    /\ hist' = HistEnd(p)
    /\ UNCHANGED <<dir, tool, cmdvars, alocks, cat, master, tempf, shards, rdr, runs>>

\* --------------------------------------------------------- perform_update
\* Lines 425-438: h5py.File(mode='a') creates master.hdf5 when it is absent;
\* attrs.setdefault('version', __version__) stores the version when there is
\* none and reads it otherwise (the value read is not used);
\* require_dataset raises when the dataset's shape is not (n_expnums,).
U_OpenMaster(p) ==
    /\ upd[p].pc = "open"
    /\ IF cat.exists /\ Len(cat.expnums) # cat.n_expnums
       THEN Raised(p)
       ELSE /\ cat' = [cat EXCEPT !.exists = TRUE,
                                   !.version = IF cat.exists THEN @ ELSE tool]
            /\ upd' = [upd EXCEPT ![p].pc = "scan", ![p].expnums_known = cat.expnums]
            /\ UNCHANGED <<dir, tool, cmdvars, lockf, lock_old, alocks, master, tempf, shards, rdr, runs, hist>>

\* Lines 440-500: the scan, the diff against expnums_known, and the opening of
\* master.hdf5 for the processing loop.
U_Diff(p) ==
    /\ upd[p].pc = "scan"
    /\ LET st == DiffLoop(upd[p].expnums_known, 1,
                          [exp_dict |-> ScanDir(dir, upd[p].n),
                           expnums_outdated |-> <<>>, temp_files |-> <<>>],
                          dir, shards)
           todo == st.exp_dict # <<>> \/ st.temp_files # <<>>
       IN  upd' = [upd EXCEPT
               ![p].exp_dict = st.exp_dict,
               ![p].expnums_outdated = st.expnums_outdated,
               ![p].temp_files = st.temp_files,
               ![p].m_file = IF todo THEN cat ELSE NoCat,
               ![p].pc = IF st.exp_dict # <<>> THEN "process"
                         ELSE IF todo THEN "close" ELSE "unlock"]
    /\ UNCHANGED <<dir, tool, cmdvars, fsvars, rdr, runs, hist>>

\* process_exp_files, lines 633-654: the primary file is read and validated,
\* and the shard of the next exposure is written
U_WriteShard(p) ==
    /\ upd[p].pc = "process"
    /\ LET expnum == Head(upd[p].exp_dict)
       IN  IF dir[expnum].bad
           THEN SysExit(p)
           ELSE /\ shards' = [shards EXCEPT
                       ![expnum] = File(ExpData(expnum, dir[expnum].exp))]
                /\ upd' = [upd EXCEPT ![p].pc = "upsert"]
                /\ UNCHANGED <<dir, tool, cmdvars, lockf, lock_old, alocks, cat, master, tempf, rdr, runs, hist>>

\* process_exp_files, lines 656-670, and temp_files.append of line 508
U_Upsert(p) ==
    /\ upd[p].pc = "upsert"
    /\ LET expnum == Head(upd[p].exp_dict)
       IN  upd' = [upd EXCEPT
               ![p].m_file = Upsert(@, expnum, dir[expnum].exp),
               ![p].temp_files = Append(@, expnum),
               ![p].exp_dict = Tail(@),
               ![p].pc = IF Tail(upd[p].exp_dict) = <<>> THEN "close" ELSE "process"]
    /\ UNCHANGED <<dir, tool, cmdvars, fsvars, rdr, runs, hist>>

\* Lines 511-514: KeyboardInterrupt inside the processing loop
U_Cancel(p) ==
    /\ upd[p].pc \in {"process", "upsert"}
    /\ upd' = [upd EXCEPT ![p].exp_dict = <<>>, ![p].cancelled = TRUE,
                          ![p].pc = "close"]
    /\ hist' = [hist EXCEPT
           !.made = Range(upd[p].temp_files)]
    /\ UNCHANGED <<dir, tool, cmdvars, fsvars, rdr, runs>>

\* Lines 511-514: the KeyboardInterrupt arrives inside lines 656-667 of
\* process_exp_files, between two of its statements
U_CancelInside(p) ==
    /\ upd[p].pc = "upsert"
    /\ \E m_file \in CutShort(upd[p], dir) :
          upd' = [upd EXCEPT ![p].exp_dict = <<>>, ![p].cancelled = TRUE,
                             ![p].m_file = m_file, ![p].pc = "close"]
    /\ hist' = [hist EXCEPT
           !.made = Range(upd[p].temp_files)]
    /\ UNCHANGED <<dir, tool, cmdvars, fsvars, rdr, runs>>

\* Lines 516-527: master.hdf5 is closed, temp_files is cut into batches
U_Close(p) ==
    /\ upd[p].pc = "close"
    /\ cat' = upd[p].m_file
    /\ upd' = [upd EXCEPT ![p].m_file = NoCat,
                          ![p].batches = Batches(upd[p].temp_files),
                          ![p].k = 1,
                          ![p].pc = AfterClose(upd[p], master)]
    /\ hist' = [hist EXCEPT !.committed = master]
    /\ UNCHANGED <<dir, tool, cmdvars, lockf, lock_old, alocks, master, tempf, shards, rdr, runs>>

\* Lines 529-547: the master without the outdated exposures goes to temp.hdf5
U_CExport(p) ==
    /\ upd[p].pc = "c_export"
    /\ IF ~master.exists
       THEN Raised(p)
       ELSE /\ tempf' = File(FilterOut(master.rows, Range(upd[p].expnums_outdated)))
            /\ upd' = [upd EXCEPT ![p].pc = "c_remove"]
            /\ UNCHANGED <<dir, tool, cmdvars, lockf, lock_old, alocks, cat, master, shards, rdr, runs, hist>>

\* Lines 549-550: os.remove(ARGS.master_exp_file)
U_CRemove(p) ==
    /\ upd[p].pc = "c_remove"
    /\ IF ~master.exists
       THEN Raised(p)
       ELSE /\ master' = NoFile
            /\ upd' = [upd EXCEPT ![p].pc = "c_rename"]
            /\ UNCHANGED <<dir, tool, cmdvars, lockf, lock_old, alocks, cat, tempf, shards, rdr, runs, hist>>

\* Lines 552-553: os.rename(master_temp_file, ARGS.master_exp_file)
U_CRename(p) ==
    /\ upd[p].pc = "c_rename"
    /\ IF ~tempf.exists
       THEN Raised(p)
       ELSE /\ master' = tempf
            /\ tempf' = NoFile
            /\ upd' = [upd EXCEPT ![p].pc = IF upd[p].batches # <<>>
                                            THEN "m_export" ELSE "reindex"]
            /\ hist' = [hist EXCEPT !.committed = tempf]
            /\ UNCHANGED <<dir, tool, cmdvars, lockf, lock_old, alocks, cat, shards, rdr, runs>>

\* Lines 557-578: the batch's shards and the master are concatenated into
\* temp.hdf5; the master is appended to the batch's list of files.
U_MExport(p) ==
    /\ upd[p].pc = "m_export"
    /\ LET batch == upd[p].batches[upd[p].k]
       IN  IF \E i \in 1..Len(batch) : ~shards[batch[i]].exists
           THEN Raised(p)
           ELSE /\ tempf' = File(IF master.exists
                                 THEN master.rows (+) BagSum(batch, shards)
                                 ELSE BagSum(batch, shards))
                /\ upd' = [upd EXCEPT
                       ![p].rmlist = [i \in 1..Len(batch) |-> <<"shard", batch[i]>>]
                                     \o (IF master.exists THEN <<(<<"master", 0>>)>>
                                         ELSE <<>>),
                       ![p].pc = "m_remove"]
                /\ hist' = [hist EXCEPT
                       !.merging = [e \in Range(batch) |-> shards[e].rows],
                       !.committed = master]
                /\ UNCHANGED <<dir, tool, cmdvars, lockf, lock_old, alocks, cat, master, shards, rdr, runs>>

\* Lines 580-582: os.remove of the next file of the batch's list
U_MRemove(p) ==
    /\ upd[p].pc = "m_remove"
    /\ LET f == Head(upd[p].rmlist)
           there == IF f[1] = "master" THEN master.exists ELSE shards[f[2]].exists
       IN  IF ~there
           THEN Raised(p)
           ELSE /\ master' = IF f[1] = "master" THEN NoFile ELSE master
                /\ shards' = IF f[1] = "shard" THEN [shards EXCEPT ![f[2]] = NoFile]
                             ELSE shards
                /\ upd' = [upd EXCEPT
                       ![p].rmlist = Tail(@),
                       ![p].pc = IF Tail(upd[p].rmlist) = <<>> THEN "m_rename"
                                 ELSE "m_remove"]
                /\ UNCHANGED <<dir, tool, cmdvars, lockf, lock_old, alocks, cat, tempf, rdr, runs, hist>>

\* Lines 584-585: os.rename(master_temp_file, ARGS.master_exp_file)
U_MRename(p) ==
    /\ upd[p].pc = "m_rename"
    /\ IF ~tempf.exists
       THEN Raised(p)
       ELSE /\ master' = tempf
            /\ tempf' = NoFile
            /\ upd' = [upd EXCEPT
                   ![p].k = @ + 1,
                   ![p].pc = IF upd[p].k < Len(upd[p].batches) THEN "m_export"
                             ELSE "reindex"]
            /\ hist' = [hist EXCEPT !.merging = <<>>, !.committed = tempf]
            /\ UNCHANGED <<dir, tool, cmdvars, lockf, lock_old, alocks, cat, shards, rdr, runs>>

\* Lines 587-618: the object catalog is recomputed from the master
U_Reindex(p) ==
    /\ upd[p].pc = "reindex"
    /\ IF ~master.exists \/ ~cat.exists
       THEN Raised(p)
       ELSE /\ cat' = [cat EXCEPT !.objids = UniqueCounts(master.rows)]
            /\ upd' = [upd EXCEPT ![p].pc = "unlock"]
            /\ UNCHANGED <<dir, tool, cmdvars, lockf, lock_old, alocks, master, tempf, shards, rdr, runs, hist>>

\* ------------------------------------------------------------ environment
\* The steps of the environment are followed as long as an update invocation
\* is still to come (runs < MaxRuns).
\* An exception raised by the environment inside perform_update (an IOError of
\* a file operation, a KeyboardInterrupt outside the processing loop).
U_Abort(p) ==
    /\ upd[p].pc \in BodyPcs \ {"unlock"}
    /\ Leave(p, "aborted")

\* The process is killed: nothing more runs, the update-lock stays.  What
\* h5py had written of an open master.hdf5 is on disk or is not.
U_Crash(p) ==
    /\ upd[p].pc \in BodyPcs
    /\ \E flushed \in BOOLEAN :
          /\ flushed => upd[p].pc \in OpenPcs
          /\ cat' = IF flushed THEN upd[p].m_file ELSE cat
    /\ upd' = [upd EXCEPT ![p] = Ended(p, "crashed")]
    /\ hist' = HistEnd(p)
    /\ UNCHANGED <<dir, tool, cmdvars, lockf, lock_old, alocks, master, tempf, shards, rdr, runs>>

\* The process is killed inside lines 656-667 of process_exp_files and what
\* h5py had written is on disk.
U_CrashInside(p) ==
    /\ upd[p].pc = "upsert"
    /\ \E m_file \in CutShort(upd[p], dir) : cat' = m_file
    /\ upd' = [upd EXCEPT ![p] = Ended(p, "crashed")]
    /\ hist' = HistEnd(p)
    /\ UNCHANGED <<dir, tool, cmdvars, lockf, lock_old, alocks, master, tempf, shards, rdr, runs>>

\* The operator deletes the update-lock a killed process left behind.
ClearLock ==
    /\ runs < MaxRuns
    /\ lockf
    /\ \A p \in Updaters : upd[p].pc \in EndPcs
    /\ lockf' = FALSE
    /\ lock_old' = FALSE
    /\ UNCHANGED <<dir, tool, cmdvars, alocks, cat, master, tempf, shards, upd, rdr, runs, hist>>

\* More than 7 days pass after a killed process left its update-lock behind.
Week ==
    /\ runs < MaxRuns
    /\ lockf /\ ~lock_old
    /\ \A p \in Updaters : upd[p].pc \in EndPcs
    /\ lock_old' = TRUE
    /\ UNCHANGED <<dir, tool, cmdvars, lockf, alocks, cat, master, tempf, shards, upd, rdr, runs, hist>>

\* Another version of the package is installed (or the store is used from a
\* machine with another version) while no update runs.
Install(v) ==
    /\ runs < MaxRuns
    /\ \A p \in Updaters : upd[p].pc \in EndPcs
    /\ v # tool
    /\ tool' = v
    /\ UNCHANGED <<dir, cmdvars, fsvars, upd, rdr, runs, hist>>

\* The primary file of an exposure is rewritten while no update runs: a new
\* version of its rows, a later mtime.
Touch(e) ==
    /\ runs < MaxRuns
    /\ \A p \in Updaters : upd[p].pc \in EndPcs
    /\ e \in Paired(dir)
    /\ \E m \in (dir[e].exp + 1)..MaxTime :
          dir' = [dir EXCEPT ![e].exp = m]
    /\ hist' = [hist EXCEPT !.quiet = FALSE, !.owed = @ \ {e}]
    /\ UNCHANGED <<tool, cmdvars, fsvars, upd, rdr, runs>>

\* ------------------------------------------------------ cli_init, cli_reset
\* shutil.rmtree(ARGS.mld) followed by os.mkdir(ARGS.mld): an empty store
Emptied ==
    /\ lockf' = FALSE
    /\ lock_old' = FALSE
    /\ alocks' = {}
    /\ cat' = NoCat
    /\ master' = NoFile
    /\ tempf' = NoFile
    /\ shards' = [e \in ExpNums |-> NoFile]

\* `mld init`, lines 100-114: the store directory must not exist, REQ_FILES
\* must be in the source directory; then os.mkdir(ARGS.mld).  The command goes
\* on with cli_update (line 117).
C_Init ==
    /\ cmd.pc \in CmdEnd
    /\ upd["u1"].pc \in EndPcs
    /\ runs < MaxRuns
    /\ IF ~CheckDatabaseExist(FALSE)
       THEN /\ cmd' = [op |-> "init", pc |-> "exists"]
            /\ runs' = runs + 1
            /\ UNCHANGED mld
       ELSE IF ~req_files
       THEN /\ cmd' = [op |-> "init", pc |-> "noreq"]
            /\ runs' = runs + 1
            /\ UNCHANGED mld
       ELSE /\ mld' = TRUE
            /\ cmd' = [op |-> "init", pc |-> "update"]
            /\ UNCHANGED runs
    /\ UNCHANGED <<dir, tool, req_files, dyn, fsvars, upd, rdr, hist>>

\* `mld reset`, lines 184-202: the store directory must exist and hold no
\* name with ".lock"; shutil.rmtree(ARGS.mld); then cli_init, lines 100-114.
C_Reset ==
    /\ cmd.pc \in CmdEnd
    /\ upd["u1"].pc \in EndPcs
    /\ runs < MaxRuns
    /\ IF ~CheckDatabaseExist(TRUE)
       THEN /\ cmd' = [op |-> "reset", pc |-> "notfound"]
            /\ runs' = runs + 1
            /\ UNCHANGED <<mld, fsvars>>
       ELSE IF Locked
       THEN /\ cmd' = [op |-> "reset", pc |-> "inuse"]
            /\ runs' = runs + 1
            /\ UNCHANGED <<mld, fsvars>>
       ELSE IF ~req_files
       THEN /\ Emptied
            /\ mld' = FALSE
            /\ cmd' = [op |-> "reset", pc |-> "noreq"]
            /\ runs' = runs + 1
       ELSE /\ Emptied
            /\ mld' = TRUE
            /\ cmd' = [op |-> "reset", pc |-> "update"]
            /\ UNCHANGED runs
    /\ UNCHANGED <<dir, tool, req_files, dyn, upd, rdr, hist>>

\* Line 117: cli_init calls cli_update
C_CallUpdate ==
    /\ cmd.pc = "update"
    /\ runs < MaxRuns
    /\ CliUpdate("u1", NoCap)
    /\ runs' = runs + 1
    /\ cmd' = [cmd EXCEPT !.pc = "running"]

\* cli_update has returned or was left by an exception: the command ends
C_Return ==
    /\ cmd.pc = "running"
    /\ upd["u1"].pc \in EndPcs
    /\ cmd' = [cmd EXCEPT !.pc = "ended"]
    /\ UNCHANGED <<dir, tool, mld, req_files, dyn, fsvars, upd, rdr, runs, hist>>

\* ---------------------------------------------------------- open_database
\* Lines 345-377: the store directory must exist and the update-lock must not
R_Check(r) ==
    /\ rdr[r] \in {"idle", "closed", "failed", "conflict", "notfound"}
    /\ rdr' = [rdr EXCEPT ![r] = IF ~CheckDatabaseExist(TRUE) THEN "notfound"
                                 ELSE IF lockf THEN "conflict" ELSE "open"]
    /\ UNCHANGED <<dir, tool, cmdvars, fsvars, upd, runs, hist>>

\* Lines 379-386: vaex.open(master_exp_file)
R_Open(r) ==
    /\ rdr[r] = "open"
    /\ rdr' = [rdr EXCEPT ![r] = IF master.exists THEN "opened" ELSE "closed"]
    /\ UNCHANGED <<dir, tool, cmdvars, fsvars, upd, runs, hist>>

\* Lines 389-395: mkstemp('.lock', '.mld_access_', mld), then the session;
\* mkstemp raises when the store directory is gone
R_Lock(r) ==
    /\ rdr[r] = "opened"
    /\ alocks' = IF mld THEN alocks \cup {r} ELSE alocks
    /\ rdr' = [rdr EXCEPT ![r] = IF mld THEN "session" ELSE "failed"]
    /\ UNCHANGED <<dir, tool, cmdvars, lockf, lock_old, cat, master, tempf, shards, upd, runs, hist>>

\* (as if the finally clause did not remove the access-lock)
FinallyKeepsLock(r) == alocks' = alocks

\* Lines 398-403, the finally clause: df.close() and os.remove(filename)
Finally(r) == alocks' = alocks \ {r}

\* The with-block of the caller ends normally
R_Close(r) ==
    /\ rdr[r] = "session"
    /\ Finally(r)
    /\ rdr' = [rdr EXCEPT ![r] = "closed"]
    /\ UNCHANGED <<dir, tool, cmdvars, lockf, lock_old, cat, master, tempf, shards, upd, runs, hist>>

\* An exception or a KeyboardInterrupt is raised inside the with-block of the
\* caller: contextmanager throws it into the generator at the yield (line 395).
R_Raise(r) ==
    /\ rdr[r] = "session"
    /\ Finally(r)
    /\ rdr' = [rdr EXCEPT ![r] = "failed"]
    /\ UNCHANGED <<dir, tool, cmdvars, lockf, lock_old, cat, master, tempf, shards, upd, runs, hist>>

\* --------------------------------------------------------- specifications
Caps == {NoCap} \cup 1..MaxCap

Body(p) ==
    \/ U_CreateLock(p)
    \/ U_OpenMaster(p)
    \/ U_Diff(p)
    \/ U_WriteShard(p)
    \/ U_Upsert(p)
    \/ U_Close(p)
    \/ U_CExport(p)
    \/ U_CRemove(p)
    \/ U_CRename(p)
    \/ U_MExport(p)
    \/ U_MRemove(p)
    \/ U_MRename(p)
    \/ U_Reindex(p)
    \/ U_Unlock(p)

Update(p, caps) ==
    \/ \E n \in caps : U_Check(p, n)
    \/ Body(p)

\* One updater at a time, with cancellation, errors, kills and source changes
\* between invocations.
Next ==
    \/ Update("u1", Caps)
    \/ U_Cancel("u1")
    \/ U_Abort("u1")
    \/ U_Crash("u1")
    \/ ClearLock
    \/ Week
    \/ \E e \in ExpNums : Touch(e)

Spec == Init /\ [][Next]_vars

\* A read session
Read(r) ==
    \/ R_Check(r)
    \/ R_Open(r)
    \/ R_Lock(r)
    \/ R_Close(r)
    \/ R_Raise(r)

\* Two updaters, run without -n, and a read session on the same store,
\* interleaved at every file operation.
NextConc ==
    \/ \E p \in Updaters : Update(p, {NoCap})
    \/ \E r \in Readers : Read(r)

\* The source files were written between two whole seconds, and exposure 2
\* has no companion file.
InitConc ==
    /\ Init
    /\ \A e \in ExpNums :
          dir[e] = [exp |-> TicksPerSec + 1, xtr |-> e # 2, bad |-> FALSE]

SpecConc == InitConc /\ [][NextConc]_vars

\* One updater on a store that is used with several versions of the package.
NextVer ==
    \/ Update("u1", {NoCap})
    \/ \E v \in Versions : Install(v)

\* The source files are valid and were written between two whole seconds.
InitVer ==
    /\ Init
    /\ \A e \in ExpNums : dir[e].exp = TicksPerSec + 1 /\ ~dir[e].bad

SpecVer == InitVer /\ [][NextVer]_vars

\* The commands init, reset and update of one shell and a read session, on a
\* source directory that has a store or has none.
NextStore ==
    \/ C_Init
    \/ C_Reset
    \/ C_CallUpdate
    \/ C_Return
    \/ Update("u1", {NoCap})
    \/ U_Crash("u1")
    \/ Read("r1")

\* The source files are as in InitConc; the store directory exists, empty, or
\* does not; REQ_FILES are in the source directory or were deleted from it.
InitStore ==
    /\ dir = [e \in ExpNums |->
                 [exp |-> TicksPerSec + 1, xtr |-> e # 2, bad |-> FALSE]]
    /\ tool = 1
    /\ mld \in BOOLEAN
    /\ req_files \in BOOLEAN
    /\ cmd = NoCmd
    /\ dyn = NoDyn
    /\ lockf = FALSE
    /\ lock_old = FALSE
    /\ alocks = {}
    /\ cat = NoCat
    /\ master = NoFile
    /\ tempf = NoFile
    /\ shards = [e \in ExpNums |-> NoFile]
    /\ upd = [p \in Updaters |-> NewUpd("idle", NoCap)]
    /\ rdr = [r \in Readers |-> "idle"]
    /\ runs = 0
    /\ hist = NoHist

SpecStore == InitStore /\ [][NextStore]_vars

\* One updater, run without -n, interrupted or killed at the file operations
\* and also between the statements that write a catalog entry.
NextCut ==
    \/ Update("u1", {NoCap})
    \/ U_Cancel("u1")
    \/ U_CancelInside("u1")
    \/ U_Crash("u1")
    \/ U_CrashInside("u1")
    \/ ClearLock

SpecCut == InitVer /\ [][NextCut]_vars

RECURSIVE SumData(_, _)
\* The rows of the current source versions of a set of exposures
SumData(S, d) ==
    IF S = {} THEN EmptyBag
    ELSE LET e == CHOOSE x \in S : TRUE
         IN  ExpData(e, d[e].exp) (+) SumData(S \ {e}, d)

\* One updater, run without -n, with errors and with source files rewritten
\* between invocations, on a store that holds a first update's result.
NextMerged ==
    \/ Update("u1", {NoCap})
    \/ U_Abort("u1")
    \/ \E e \in ExpNums : Touch(e)

\* The state after `mld init` has run to its end (cli_init with its
\* cli_update): the source files were written between two whole seconds, the
\* master holds the rows of the scanned exposures, the catalog their entries
\* and the objects counted from the master.
InitMerged ==
    /\ \E S \in SUBSET ExpNums \ {{}} :
          dir = [e \in ExpNums |->
                    [exp |-> TicksPerSec - 1, xtr |-> e \in S, bad |-> FALSE]]
    /\ tool = 1
    /\ LET exp_dict == ScanDir(dir, NoCap)
       IN  /\ master = File(SumData(Range(exp_dict), dir))
           /\ cat = [exists |-> TRUE, version |-> tool,
                     n_expnums |-> Len(exp_dict),
                     expnums |-> [i \in 1..Len(exp_dict) |->
                         [expnum |-> exp_dict[i],
                          last_modified |-> ToInt(dir[exp_dict[i]].exp)]],
                     objids |-> UniqueCounts(master.rows)]
    /\ mld = TRUE
    /\ req_files = TRUE
    /\ cmd = NoCmd
    /\ dyn = NoDyn
    /\ lockf = FALSE
    /\ lock_old = FALSE
    /\ alocks = {}
    /\ tempf = NoFile
    /\ shards = [e \in ExpNums |-> NoFile]
    /\ upd = [p \in Updaters |-> NewUpd("idle", NoCap)]
    /\ rdr = [r \in Readers |-> "idle"]
    /\ runs = 0
    /\ hist = NoHist

SpecMerged == InitMerged /\ [][NextMerged]_vars

\* One updater, invoked again and again with one cap, on a source directory
\* that does not change.
NextCap ==
    \/ U_Repeat("u1")
    \/ Body("u1")

\* An empty store; exposures 2 and 10 have a companion file or have none,
\* exposure 1 has none; the cap is some N >= 1.
InitCap ==
    /\ \E S \in SUBSET (ExpNums \ {1}) : \E m \in TicksPerSec..(TicksPerSec + 1) :
          dir = [e \in ExpNums |-> [exp |-> m, xtr |-> e \in S, bad |-> FALSE]]
    /\ \E n \in 1..MaxCap :
          upd = [p \in Updaters |-> NewUpd("idle", n)]
    /\ tool = 1
    /\ mld = TRUE
    /\ req_files = TRUE
    /\ cmd = NoCmd
    /\ dyn = NoDyn
    /\ lockf = FALSE
    /\ lock_old = FALSE
    /\ alocks = {}
    /\ cat = NoCat
    /\ master = NoFile
    /\ tempf = NoFile
    /\ shards = [e \in ExpNums |-> NoFile]
    /\ rdr = [r \in Readers |-> "idle"]
    /\ runs = 0
    /\ hist = NoHist

\* The update is invoked again whenever the one before has ended, and every
\* invocation comes to its end (perform_update waits for nothing).
SpecCap ==
    /\ InitCap /\ [][NextCap]_vars
    /\ WF_vars(U_Repeat("u1"))
    /\ []<>(upd["u1"].pc \in EndPcs)

\* dyn_range(n) called with its default step, for a list of length n
DynRangeCall ==
    /\ ~dyn.called
    /\ dyn' = [dyn EXCEPT !.called = TRUE, !.out = DynRange(dyn.n, 0, DefaultStep)]
    /\ UNCHANGED <<dir, tool, mld, req_files, cmd, fsvars, upd, rdr, runs, hist>>

NextDyn == DynRangeCall

\* Any length up to MaxN, on an empty store
InitDyn ==
    /\ \E n \in 0..MaxN : dyn = [NoDyn EXCEPT !.n = n]
    /\ dir = [e \in ExpNums |-> [exp |-> 0, xtr |-> FALSE, bad |-> FALSE]]
    /\ tool = 1
    /\ mld = TRUE
    /\ req_files = TRUE
    /\ cmd = NoCmd
    /\ lockf = FALSE
    /\ lock_old = FALSE
    /\ alocks = {}
    /\ cat = NoCat
    /\ master = NoFile
    /\ tempf = NoFile
    /\ shards = [e \in ExpNums |-> NoFile]
    /\ upd = [p \in Updaters |-> NewUpd("idle", NoCap)]
    /\ rdr = [r \in Readers |-> "idle"]
    /\ runs = 0
    /\ hist = NoHist

SpecDyn == InitDyn /\ [][NextDyn]_vars

\* ------------------------------------------------------------------ claims
\* The invocation of u1 ran to its end, uncancelled, and no source file has
\* changed since.
Completed ==
    /\ upd["u1"].pc = "done"
    /\ ~upd["u1"].cancelled
    /\ hist.quiet

Scanned(e) == InSeq(ScanDir(dir, upd["u1"].n), e)

\* C1: a shard of the batch being merged is deleted only once the master
\* holds its rows, in every state, the states a kill or an error leaves
\* included.
C1_ShardsDeletedAfterRename ==
    \A e \in DOMAIN hist.merging :
        ~shards[e].exists => master.exists /\ hist.merging[e] \sqsubseteq master.rows

\* C2: shards written by an invocation that ended before its first batch
\* merge are merged by a later invocation that runs to its end over the same
\* sources: the rows of every such exposure are in the master.
C2_CrashRecovery ==
    (upd["u1"].pc = "done" /\ ~upd["u1"].cancelled) =>
        \A e \in hist.owed :
            master.exists /\ ExpData(e, dir[e].exp) \sqsubseteq master.rows

\* C3: an error while a batch is merged leaves the master as it was when the
\* batch's merge began, and the shards of that batch and of the later ones.
C3_AbortKeepsCommitted ==
    (upd["u1"].pc = "aborted" /\ upd["u1"].at = "merge") =>
        /\ master = hist.committed
        /\ \A e \in hist.todo : shards[e].exists

C5_Idempotent ==
    (hist.again /\ upd["u1"].n = hist.prev_n) =>
        /\ upd["u1"].exp_dict = <<>>
        /\ upd["u1"].expnums_outdated = <<>>
        /\ upd["u1"].pc \in {"mklock", "open", "scan", "unlock"} \cup EndPcs
        /\ master = hist.pre_master
        /\ cat = hist.pre_cat

\* C6: the first uninterrupted update of a fresh store merges exactly the rows
\* of the paired exposures, each once, records exactly these exposures in the
\* catalog and leaves no shard.
C6_FreshUpdate ==
    (Completed /\ hist.first /\ upd["u1"].n = NoCap) =>
        /\ master.rows = SumData(Paired(dir), dir)
        /\ {cat.expnums[i].expnum : i \in 1..Len(cat.expnums)} = Paired(dir)
        /\ cat.n_expnums = Cardinality(Paired(dir))
        /\ \A e \in ExpNums : ~shards[e].exists

\* C7: after a successful update the object catalog holds, for every object id
\* of the master, the number of the master's rows with that object id, and no
\* other object id.
C7_ObjectCatalog ==
    upd["u1"].pc = "done" => cat.objids = UniqueCounts(master.rows)

\* C8: at most one updater is past the lock check, inside the update body.
C8_SingleWriter ==
    Cardinality({p \in Updaters : upd[p].pc \in BodyPcs}) <= 1

\* C9: an update that lists the store directory while a lock file exists ends
\* at once, and that step changes no file of the store: no lock file, not the
\* master, not the catalog.
C9_LockConflict ==
    [][\A p \in Updaters :
          (upd[p].pc \in EndPcs /\ upd'[p] # upd[p] /\ (lockf \/ alocks # {})) =>
              /\ upd'[p].pc = "conflict"
              /\ UNCHANGED fsvars
              /\ upd'[p].m_file = NoCat]_vars

C9_Witness ==
    \E p \in Updaters : upd[p].pc = "conflict" /\ alocks # {} /\ ~lockf

\* C10: no read session holds the master open under its access-lock while an
\* updater holds the update-lock.
C10_ReaderUpdaterExclusion ==
    \A r \in Readers : \A p \in Updaters :
        ~(rdr[r] = "session" /\ r \in alocks /\ upd[p].pc \in BodyPcs)

\* C11: an access-lock exists exactly for the read sessions in progress: a read
\* refused because of the update-lock has created none, and a session that
\* ended, by a normal close or by an error or interrupt raised inside it, has
\* left none.
C11_AccessLockLifecycle ==
    alocks = {r \in Readers : rdr[r] = "session"}

C11_Witness ==
    \E r \in Readers : rdr[r] = "failed" /\ r \notin alocks /\ alocks # {}

\* C12: an update invocation that created the update-lock and has ended, with
\* success, with nothing to do, after a cancellation, at an invalid exposure
\* file or at an error, has left no update-lock.
C12_UpdateLockReleased ==
    upd["u1"].pc \in {"done", "raised", "aborted", "invalid"} => ~lockf

C12_Witness ==
    /\ upd["u1"].pc = "invalid"
    /\ \E e \in ExpNums : shards[e].exists
    /\ ~lockf

\* C13: once the master exists, its path holds, in every state of an update,
\* either the complete store from before the replacement in progress or the
\* complete store that replaces it; it is never absent.
C13_AtomicReplacement ==
    hist.committed.exists => master = hist.committed

\* C14: an update attempted while the only lock file of the store is an
\* update-lock older than 7 days is not refused because of it.
C14_StaleLockReclaimed ==
    [][\A p \in Updaters :
          (upd[p].pc \in EndPcs /\ upd'[p] # upd[p] /\ lock_old /\ alocks = {}) =>
              upd'[p].pc # "conflict"]_vars

\* C15: no update is past the opening of the catalog while the catalog's
\* stored version is newer than the version of the running package.
C15_VersionCheck ==
    \A p \in Updaters :
        upd[p].pc \in BodyPcs \ {"open"} => cat.version <= tool

\* C16: an update cancelled in its processing loop ends without error, and the
\* rows of every exposure it held a shard of then (the leftover ones and those
\* processed before the cancellation) are in the master.
C16_Cancellation ==
    (upd["u1"].cancelled /\ upd["u1"].pc \in {"done", "raised"}) =>
        /\ upd["u1"].pc = "done"
        /\ \A e \in hist.made :
              /\ master.exists
              /\ \E a \in 1..MaxTime : ExpData(e, a) \sqsubseteq master.rows

\* C17: after a successful update, every shard that existed when the update
\* began has been deleted and rows of its exposure (its own, or those written
\* in their place when the exposure was processed again) are in the master.
C17_LeftoverShards ==
    (upd["u1"].pc = "done" /\ ~upd["u1"].cancelled) =>
        \A e \in hist.pending :
            /\ ~shards[e].exists
            /\ master.exists
            /\ \E a \in 1..MaxTime : ExpData(e, a) \sqsubseteq master.rows

\* C18: while no update runs, every exposure with a catalog entry has in the
\* master the rows of one source version, and the entry's last_modified is the
\* modification time of that version (to the whole second the column holds).
C18_LastModifiedMatchesMaster ==
    (\A p \in Updaters : upd[p].pc \in EndPcs) =>
        \A i \in 1..Len(cat.expnums) :
            \E a \in 1..MaxTime :
                /\ RowsOfExp(master.rows, cat.expnums[i].expnum)
                       = ExpData(cat.expnums[i].expnum, a)
                /\ cat.expnums[i].last_modified = ToInt(a)

\* C19: while no update runs, every exposure with a catalog entry has rows in
\* the master; and the exposures that had an entry when the invocation began
\* still have one.
C19_KnownOnlyIfMerged ==
    /\ (\A p \in Updaters : upd[p].pc \in EndPcs) =>
           \A i \in 1..Len(cat.expnums) :
               master.exists
                   /\ RowsOfExp(master.rows, cat.expnums[i].expnum) # EmptyBag
    /\ \A i \in 1..Len(hist.pre_cat.expnums) :
           \E j \in 1..Len(cat.expnums) :
               cat.expnums[j].expnum = hist.pre_cat.expnums[i].expnum

\* C20: when an update that was given no cap has met a primary file that
\* fails validation, the rows of every other paired exposure of the source
\* directory are in the master once the update has ended.
C20_ValidationAbortsUnitOnly ==
    (upd["u1"].pc = "invalid" /\ upd["u1"].n = NoCap) =>
        \A e \in ExpNums :
            (dir[e].exp > 0 /\ dir[e].xtr /\ ~dir[e].bad) =>
                master.exists /\ RowsOfExp(master.rows, e) # EmptyBag

\* The command op is given to the shell in this step, and it is another
\* command, or has another outcome, than the one before
Starts(op) ==
    /\ cmd.pc \in CmdEnd
    /\ cmd'.op = op
    /\ cmd' # cmd

\* A command is given that ends at once as the same command did before
EndsAtOnce ==
    /\ runs' # runs
    /\ UNCHANGED <<cmd, upd>>

\* C21: init on a directory that has a store ends at once with "already
\* exists"; reset, update and a read session on a directory without a store
\* end at once with "not found"; each leaves the store directory, its files
\* and the source directory as they were.
C21_StoreExistenceErrors ==
    [][/\ (Starts("init") /\ mld) =>
              cmd'.pc = "exists" /\ UNCHANGED <<mld, dir, fsvars>>
       /\ (Starts("reset") /\ ~mld) =>
              cmd'.pc = "notfound" /\ UNCHANGED <<mld, dir, fsvars>>
       /\ \A p \in Updaters :
              (upd[p].pc \in EndPcs /\ upd'[p] # upd[p] /\ ~mld) =>
                  upd'[p].pc = "notfound" /\ UNCHANGED <<mld, dir, fsvars>>
       /\ \A r \in Readers :
              (rdr[r] \notin {"open", "opened", "session"}
                   /\ rdr'[r] # rdr[r] /\ ~mld) =>
                  rdr'[r] = "notfound" /\ UNCHANGED <<mld, dir, fsvars>>
       /\ EndsAtOnce => UNCHANGED <<mld, dir, fsvars>>]_vars

C21_Witness ==
    /\ ~mld
    /\ upd["u1"].pc = "notfound"
    /\ rdr["r1"] = "notfound"
    /\ cmd = [op |-> "reset", pc |-> "notfound"]

\* C22: the exposures an uncapped update on an empty store has taken from its
\* scan (those still to process and those processed) are exactly the
\* exposures whose primary and companion files are both in the source
\* directory.
C22_ScanPairing ==
    (upd["u1"].pc = "process" /\ hist.first /\ upd["u1"].n = NoCap) =>
        Range(upd["u1"].exp_dict) \cup Range(upd["u1"].temp_files) = Paired(dir)

\* C23: an update enters the compaction only from the closing of the catalog
\* and only with an outdated exposure; once it merges batches or reindexes it
\* never compacts again; and the master the compaction puts in place holds,
\* of the master it replaced, the rows of exactly the exposures that are not
\* outdated.
C23_CompactionOnce ==
    [][LET u == upd["u1"]
           v == upd'["u1"]
       IN  /\ (v.pc = "c_export" /\ u.pc # "c_export") =>
                  u.pc = "close" /\ v.expnums_outdated # <<>>
           /\ u.pc \in MergePcs \cup {"reindex", "unlock"} =>
                  v.pc \notin {"close", "c_export", "c_remove", "c_rename"}
           /\ (u.pc = "c_rename" /\ v.pc \in {"m_export", "reindex"}) =>
                  \A e \in ExpNums :
                      RowsOfExp(master'.rows, e) =
                          IF e \in Range(u.expnums_outdated) THEN EmptyBag
                          ELSE RowsOfExp(hist.committed.rows, e)]_vars

C23_Witness ==
    /\ upd["u1"].pc = "m_export" /\ upd["u1"].k = 1
    /\ upd["u1"].expnums_outdated # <<>>
    /\ master.exists /\ master.rows # EmptyBag
    /\ hist.committed = master
    /\ hist.pre_master.rows # master.rows

\* C24: the slices dyn_range(n) yields with step 100 start at 0 and end at n,
\* each is non-empty and begins where the one before it ended; every slice
\* but the last has exactly 100 items and the last has at most 150; there is
\* no slice for n = 0.
C24_DynRange ==
    dyn.called =>
        LET out == dyn.out
            len == Len(dyn.out)
        IN  /\ dyn.n = 0 <=> out = <<>>
            /\ len > 0 => out[1][1] = 0 /\ out[len][2] = dyn.n
            /\ \A k \in 1..len : out[k][1] < out[k][2]
            /\ \A k \in 1..(len - 1) :
                   /\ out[k + 1][1] = out[k][2]
                   /\ out[k][2] - out[k][1] = 100
            /\ len > 0 => out[len][2] - out[len][1] <= 150

C24_Witness ==
    /\ dyn.called
    /\ Len(dyn.out) = 3
    /\ dyn.out[3] = <<200, 350>>

\* The exposure numbers of a catalog's entries
Ids(c) == {c.expnums[i].expnum : i \in 1..Len(c.expnums)}

\* C25: master.hdf5 on disk never holds two entries of one exposure and its
\* n_expnums is the number of its entries; and processing an exposure either
\* appends one entry and counts it (unseen) or overwrites the exposure's
\* entry and leaves the count and all other entries as they were (known).
C25_CatalogUpsert ==
    [][/\ cat'.n_expnums = Len(cat'.expnums)
       /\ Cardinality(Ids(cat')) = Len(cat'.expnums)
       /\ \A p \in Updaters :
              (upd[p].pc = "upsert" /\ upd'[p].temp_files =
                   Append(upd[p].temp_files, Head(upd[p].exp_dict))) =>
                  LET c == upd[p].m_file
                      c2 == upd'[p].m_file
                      expnum == Head(upd[p].exp_dict)
                  IN  IF expnum \in Ids(c)
                      THEN /\ c2.n_expnums = c.n_expnums
                           /\ Len(c2.expnums) = Len(c.expnums)
                           /\ \A i \in 1..Len(c.expnums) :
                                  c.expnums[i].expnum # expnum =>
                                      c2.expnums[i] = c.expnums[i]
                           /\ expnum \in Ids(c2)
                      ELSE /\ c2.n_expnums = c.n_expnums + 1
                           /\ Len(c2.expnums) = Len(c.expnums) + 1
                           /\ SubSeq(c2.expnums, 1, Len(c.expnums)) = c.expnums
                           /\ c2.expnums[Len(c2.expnums)].expnum = expnum]_vars

\* C26: the rows the master holds of an exposure are the rows of one version
\* of its primary file, each of them once.
C26_SingleVersion ==
    \A e \in ExpNums :
        \/ RowsOfExp(master.rows, e) = EmptyBag
        \/ \E a \in 1..MaxTime : RowsOfExp(master.rows, e) = ExpData(e, a)

\* C27: when an update that was cancelled in its processing loop has ended,
\* every exposure that had rows in the master when the update began, and
\* whose primary file had been rewritten since those rows were read, still
\* has rows in the master.
C27_CancelKeepsRows ==
    (upd["u1"].pc = "done" /\ upd["u1"].cancelled) =>
        \A e \in ExpNums :
            (/\ RowsOfExp(hist.pre_master.rows, e) # EmptyBag
             /\ RowsOfExp(hist.pre_master.rows, e) # ExpData(e, dir[e].exp)) =>
                master.exists /\ RowsOfExp(master.rows, e) # EmptyBag

\* C28: under repeated updates with one cap N >= 1 on an unchanging source
\* directory, eventually every exposure with both files has a catalog entry
\* and rows in the master.
C28_CapProgress ==
    <>(\A e \in Paired(dir) :
          /\ e \in Ids(cat)
          /\ master.exists /\ RowsOfExp(master.rows, e) # EmptyBag)

\* C29: a reset of a store that holds a lock file ends with "in use" and
\* leaves the store directory and its files as they were; and a reset given
\* for a directory with a store leaves a store directory behind when it ends,
\* with an error of its re-initialization or after its update.
C29_ResetKeepsStore ==
    [][/\ (Starts("reset") /\ mld /\ Locked) =>
              cmd'.pc = "inuse" /\ UNCHANGED <<mld, fsvars>>
       /\ (Starts("reset") /\ mld /\ cmd'.pc \in CmdEnd) => mld'
       /\ (cmd.op = "reset" /\ cmd'.pc = "ended") => mld'
       /\ (EndsAtOnce /\ cmd.op = "reset") => UNCHANGED <<mld, fsvars>>]_vars

====
